---- MODULE Spec2Model ----
(***************************************************************************)
(* Verification model of three HPX components:                             *)
(*   - this_thread::sync_wait (generic connect/start/wait/get_value path)  *)
(*     libs/core/execution/include/hpx/execution/algorithms/sync_wait.hpp  *)
(*   - collectives::all_reduce                                             *)
(*     libs/full/collectives/include/hpx/collectives/all_reduce.hpp        *)
(*   - execution::experimental::block_fork_join_executor                   *)
(*     libs/core/compute_local/include/hpx/compute_local/host/             *)
(*     block_fork_join_executor.hpp                                        *)
(***************************************************************************)
EXTENDS Integers, Sequences, FiniteSets, TLC

(***************************************************************************)
(* Bounds of the model.                                                    *)
(***************************************************************************)
MaxVal == 2      \* payload values are 1..MaxVal
MaxArgs == 2     \* a value signal carries 0..MaxArgs arguments
MaxErr == 2      \* error values / exception objects are 1..MaxErr

MaxSites == 2    \* a communicator has 1..MaxSites participating sites
MaxGen == 2      \* callers pass generations 0..MaxGen

MaxTargets == 2  \* an executor is built from 0..MaxTargets targets
MaxCore == 2     \* the processing units of the machine are 0..MaxCore
MaxSize == 3     \* a shape has 0..MaxSize elements

Vals == 1..MaxVal

(***************************************************************************)
(* sync_wait.hpp                                                           *)
(***************************************************************************)
VARIABLES
    completion_scheduler,  \* the sender advertises a completion scheduler
                           \* for set_value_t
    scheduler_sync_wait,   \* tag_invoke(sync_wait_t, scheduler, sender) is
                           \* well-formed for such a scheduler
    sender_sync_wait,      \* tag_invoke(sync_wait_t, sender) is well-formed
    Type,        \* Sync_wait_type template argument: "single" or "variant"
    inl,         \* TRUE: the sender completes inline inside start()
    sig,         \* the terminal signal the sender is going to deliver
    wpc,         \* position of the thread that called sync_wait
    spc,         \* position of the thread that delivers the signal
    mtx,         \* shared_state::mtx: "free", "waiter" or "signaller"
    set_called,  \* shared_state::set_called
    value,       \* shared_state::value (the outcome variant)
    cv_waiting,  \* the waiter is enqueued on shared_state::cond_var
    wake,        \* what unblocked cond_var.wait: "none", "notify", "spurious"
    ret          \* what sync_wait gave its caller

\* what the sender offers to the customization point: the inputs of the
\* dispatch of sync_wait_t
dispvars == <<completion_scheduler, scheduler_sync_wait, sender_sync_wait>>

swvars == <<dispvars, Type, inl, sig, wpc, spc, mtx, set_called, value,
            cv_waiting, wake, ret>>

(***************************************************************************)
(* all_reduce.hpp                                                          *)
(***************************************************************************)
VARIABLES
    overload,    \* which all_reduce overload the sites call
    op,          \* the reduction operation all sites pass
    num_sites,   \* number of participating sites
    gens,        \* the generations of the rounds that are run
    calls,       \* per (generation, site): the call and its future
    bufs         \* per (communicator, generation): the slot buffer

arvars == <<overload, op, num_sites, gens, calls, bufs>>

(***************************************************************************)
(* block_fork_join_executor.hpp                                            *)
(***************************************************************************)
VARIABLES
    targets,      \* constructor argument: the list of target masks
    this_pu,      \* processing unit of the thread running the constructor
    schedule,     \* constructor argument: the requested loop schedule
    cpc,          \* position of the constructor
    thrown,       \* what the constructor raised: "none" or an error
    exec_,        \* member exec_: the top-level fork_join_executor
    block_execs_, \* member block_execs_: the sub-executors
    init_todo,    \* indices of the constructor's bulk call not yet run
    other,        \* a second executor object, to compare exec with
    cmp,          \* what operator== and operator!= returned
    bpc,          \* position of the thread making a bulk call
    mode,         \* the bulk call made: "sync" or "async"
    size,         \* std::size(shape) of the bulk call
    bad,          \* the shape element on which f throws, or NoElem
    tasks,        \* per index of the outer shape: the state of its part
    count,        \* per shape element: invocations of f in this call
    ncalls,       \* bulk calls made so far
    outcomes      \* what each bulk call gave its caller

ctorvars == <<targets, this_pu, schedule, cpc, thrown, exec_, block_execs_,
              init_todo, other, cmp>>
bulkvars == <<bpc, mode, size, bad, tasks, count, ncalls, outcomes>>
exvars == <<ctorvars, bulkvars>>

vars == <<swvars, arvars, exvars>>

(***************************************************************************)
(* block_fork_join_executor.hpp: definitions                               *)
(***************************************************************************)
Cores == 0..MaxCore

\* target.native_handle().get_device(): the non-empty core mask of a target
Masks == (SUBSET Cores) \ {{}}

TargetLists == UNION {[1..n -> Masks] : n \in 0..MaxTargets}

\* fork_join_executor::loop_schedule
Schedules == {"static_", "dynamic"}

\* hpx::threads::test, set and find_first on a mask_type
test(mask, pu) == pu \in mask
set(mask, pu) == mask \cup {pu}
find_first(mask) == CHOOSE c \in mask : \A d \in mask : c <= d

\* a fork_join_executor is a handle on the worker threads it created: id
\* names them, NoPool is the handle that has none
NoPool == <<0, 0>>
fork_join_executor(mask, sched, id) ==
    [mask |-> mask, schedule |-> sched, id |-> id]

\* fork_join_executor(init_mode::no_init)
no_init == fork_join_executor({}, "none", NoPool)

\* the loop of cores_for_targets over targets[i..], carrying the mask built
\* so far and the flag this_thread_is_represented
RECURSIVE cores_for_targets_loop(_, _, _, _, _)
cores_for_targets_loop(ts, pu, i, mask, represented) ==
    IF i > Len(ts) THEN [mask |-> mask, represented |-> represented]
    ELSE IF ~represented /\ test(ts[i], pu)
         THEN cores_for_targets_loop(ts, pu, i + 1, set(mask, pu), TRUE)
         ELSE cores_for_targets_loop(ts, pu, i + 1,
                  set(mask, find_first(ts[i])), represented)

\* cores_for_targets without the final test of this_thread_is_represented
cores_for_targets_unchecked(ts, pu) ==
    IF Len(ts) = 1
    THEN IF ~test(ts[1], pu)
         THEN [thrown |-> "bad_parameter", mask |-> {}]
         ELSE [thrown |-> "none", mask |-> ts[1]]
    ELSE LET r == cores_for_targets_loop(ts, pu, 1, {}, FALSE)
         IN  [thrown |-> "none", mask |-> r.mask]

\* cores_for_targets whose loop does not test this_thread_is_represented:
\* every target holding the caller's core is represented by it
cores_for_targets_every(ts, pu) ==
    IF Len(ts) = 1
    THEN IF ~test(ts[1], pu)
         THEN [thrown |-> "bad_parameter", mask |-> {}]
         ELSE [thrown |-> "none", mask |-> ts[1]]
    ELSE LET m == {IF test(ts[i], pu) THEN pu ELSE find_first(ts[i]) :
                      i \in 1..Len(ts)}
         IN  IF \A i \in 1..Len(ts) : ~test(ts[i], pu)
             THEN [thrown |-> "bad_parameter", mask |-> {}]
             ELSE [thrown |-> "none", mask |-> m]

\* cores_for_targets whose loop sets the caller's core only: the targets
\* that are not represented by it get no core
cores_for_targets_caller_only(ts, pu) ==
    IF Len(ts) = 1
    THEN IF ~test(ts[1], pu)
         THEN [thrown |-> "bad_parameter", mask |-> {}]
         ELSE [thrown |-> "none", mask |-> ts[1]]
    ELSE LET r == cores_for_targets_loop(ts, pu, 1, {}, FALSE)
         IN  IF ~r.represented
             THEN [thrown |-> "bad_parameter", mask |-> {}]
             ELSE [thrown |-> "none", mask |-> set({}, pu)]

\* cores_for_targets whose loop gives every target its lowest core, also
\* the target that holds the caller's core
cores_for_targets_lowest(ts, pu) ==
    IF Len(ts) = 1
    THEN IF ~test(ts[1], pu)
         THEN [thrown |-> "bad_parameter", mask |-> {}]
         ELSE [thrown |-> "none", mask |-> ts[1]]
    ELSE LET r == cores_for_targets_loop(ts, pu, 1, {}, FALSE)
         IN  IF ~r.represented
             THEN [thrown |-> "bad_parameter", mask |-> {}]
             ELSE [thrown |-> "none",
                   mask |-> {find_first(ts[i]) : i \in 1..Len(ts)}]

\* cores_for_targets that returns the empty mask for an empty target list
cores_for_targets_empty_ok(ts, pu) ==
    IF Len(ts) = 1
    THEN IF ~test(ts[1], pu)
         THEN [thrown |-> "bad_parameter", mask |-> {}]
         ELSE [thrown |-> "none", mask |-> ts[1]]
    ELSE LET r == cores_for_targets_loop(ts, pu, 1, {}, FALSE)
         IN  IF ~r.represented /\ Len(ts) > 0
             THEN [thrown |-> "bad_parameter", mask |-> {}]
             ELSE [thrown |-> "none", mask |-> r.mask]

\* cores_for_targets(targets), run on processing unit pu: the mask of the
\* top-level executor, or the error raised
cores_for_targets(ts, pu) ==
    IF Len(ts) = 1
    THEN IF ~test(ts[1], pu)
         THEN [thrown |-> "bad_parameter", mask |-> {}]
         ELSE [thrown |-> "none", mask |-> ts[1]]
    ELSE LET r == cores_for_targets_loop(ts, pu, 1, {}, FALSE)
         IN  IF ~r.represented
             THEN [thrown |-> "bad_parameter", mask |-> {}]
             ELSE [thrown |-> "none", mask |-> r.mask]

\* the member initializer of exec_ in the o-th constructor call
exec_init(o, ts, pu, sched) ==
    fork_join_executor(cores_for_targets(ts, pu).mask,
        IF Len(ts) = 1 THEN sched ELSE "static_", <<o, 0>>)

\* an init_f that creates the sub-executors with the static schedule
init_f_static(o, ts, sched, index) ==
    fork_join_executor(ts[index], "static_", <<o, index>>)

\* init_f(index) of the o-th constructor call: the sub-executor of a target
\* (indices count from 1 here)
init_f(o, ts, sched, index) ==
    fork_join_executor(ts[index], sched, <<o, index>>)

\* a constructor that builds the hierarchy for a single target too
block_fork_join_executor_hierarchy(o, ts, pu, sched) ==
    [exec_ |-> exec_init(o, ts, pu, sched),
     block_execs_ |-> [i \in 1..Len(ts) |-> init_f(o, ts, sched, i)]]

\* the object a constructor call that returns leaves behind
block_fork_join_executor(o, ts, pu, sched) ==
    [exec_ |-> exec_init(o, ts, pu, sched),
     block_execs_ |-> IF Len(ts) > 1
                      THEN [i \in 1..Len(ts) |-> init_f(o, ts, sched, i)]
                      ELSE <<>>]

NoExecutor == [obj |-> [exec_ |-> no_init, block_execs_ |-> <<>>],
               from |-> "none"]
NoCmp == [done |-> FALSE, eq |-> FALSE, ne |-> FALSE]

\* fork_join_executor::operator==: both handles name the same worker threads
fork_join_executor_eq(a, b) == a.id = b.id

\* std::vector<fork_join_executor>::operator==
RECURSIVE vector_eq(_, _, _)
vector_eq(a, b, i) ==
    IF Len(a) # Len(b) THEN FALSE
    ELSE IF i > Len(a) THEN TRUE
    ELSE fork_join_executor_eq(a[i], b[i]) /\ vector_eq(a, b, i + 1)

\* an operator== that leaves exec_ out
operator_eq_blocks_only(lhs, rhs) ==
    vector_eq(lhs.block_execs_, rhs.block_execs_, 1)

\* block_fork_join_executor::operator==
operator_eq(lhs, rhs) ==
    /\ fork_join_executor_eq(lhs.exec_, rhs.exec_)
    /\ vector_eq(lhs.block_execs_, rhs.block_execs_, 1)

\* block_fork_join_executor::operator!=
operator_ne(lhs, rhs) == ~operator_eq(lhs, rhs)

\* ---- bulk execution ------------------------------------------------------
Indices == 0..(MaxTargets - 1)
Elements == 0..(MaxSize - 1)
NoElem == -1
NoExc == -1

\* a bulk call on an executor and a following one on the same executor
CallNumbers == {1, 2}

\* the part of the shape given to one index of the outer shape, and the
\* progress of the bulk call of the executor it is given to
NoTask ==
    [st |-> "unused", part_begin |-> 0, part_end |-> 0, pending |-> {},
     running |-> {}, exc |-> NoExc, on |-> NoPool]

\* the bounds of the part of index in a shape of sz elements
part_begin(index, sz, num_targets) == (index * sz) \div num_targets

\* a part_end that rounds the part size down before multiplying
part_end_truncated(index, sz, num_targets) ==
    (index + 1) * (sz \div num_targets)

part_end(index, sz, num_targets) == ((index + 1) * sz) \div num_targets

\* an inner_shape that includes the element at part_end
inner_shape_closed(index, sz, num_targets) ==
    {e \in Elements :
        /\ e >= part_begin(index, sz, num_targets)
        /\ e <= part_end(index, sz, num_targets)}

\* make_iterator_range(next(begin(shape), part_begin), next(begin(shape),
\* part_end)) over the shape 0..sz-1
inner_shape(index, sz, num_targets) ==
    {e \in 0..(sz - 1) :
        /\ e >= part_begin(index, sz, num_targets)
        /\ e < part_end(index, sz, num_targets)}

\* what a bulk call gives its caller
Returned == [kind |-> "returned", exc |-> NoExc]
Raised(e) == [kind |-> "raised", exc |-> e]
ReadyFuture == [kind |-> "ready_future", exc |-> NoExc]
ExceptionalFuture(e) == [kind |-> "exceptional_future", exc |-> e]

\* a bulk_sync_execute that drops the exception of the top-level call
bulk_sync_result_dropped(e) == Returned

\* bulk_sync_execute: the top-level call returned (e = NoExc) or raised e
bulk_sync_result(e) == IF e = NoExc THEN Returned ELSE Raised(e)

\* a bulk_async_execute without the handler of try_catch_exception_ptr
bulk_async_result_uncaught(e) ==
    IF e = NoExc THEN ReadyFuture ELSE Raised(e)

\* bulk_async_execute: try_catch_exception_ptr around bulk_sync_execute
bulk_async_result(e) ==
    IF bulk_sync_result(e).kind = "returned" THEN ReadyFuture
    ELSE ExceptionalFuture(bulk_sync_result(e).exc)

\* An argument of set_value: a value and the value category it is passed with.
Quals == {"rvalue", "lvalue_ref"}
Args == [v : Vals, q : Quals]
ArgSeqs == UNION {[1..n -> Args] : n \in 0..MaxArgs}

Signals ==
    [kind : {"value"}, args : ArgSeqs]
        \cup [kind : {"error"}, eptr : BOOLEAN, e : 1..MaxErr]
        \cup [kind : {"stopped"}]

\* hpx::monostate, the alternative a default-constructed outcome holds
monostate == [tag |-> "monostate"]

\* hpx::forward_as_tuple: a tuple of references to the arguments
forward_as_tuple(us) == us

\* make_decayed_pack: constructing the decayed tuple from the tuple of
\* references copies every element and drops its value category
make_decayed_pack(refs) == [i \in DOMAIN refs |-> refs[i].v]

\* result_type, the std::conditional on Type: single mode is a variant with
\* the one value tuple as its alternative 0; variant mode is the variant over
\* all value tuples, the alternative being selected by the tuple's type
\* (here: its arity)
result_type(T, refs) ==
    IF T = "single"
    THEN [alt |-> 0, tup |-> make_decayed_pack(refs)]
    ELSE [alt |-> Len(refs), tup |-> make_decayed_pack(refs)]

\* What sync_wait gives its caller
NotReturned == [kind |-> "none"]
Present(x) == [kind |-> "present", val |-> x]
Absent == [kind |-> "absent"]
Throw(x) == [kind |-> "throw", exc |-> x]

\* hpx::get<T>(variant) on a variant that holds another alternative
bad_variant_access == [what |-> "bad_variant_access"]

\* sync_wait_error_visitor: rethrow a captured exception (same exception
\* object), throw a typed error value itself
sync_wait_error_visitor(err) ==
    IF err.eptr
    THEN Throw([what |-> "rethrown", e |-> err.e])
    ELSE Throw([what |-> "typed", e |-> err.e])

\* a get_value that tests for an error first and then falls through to the
\* empty optional, whatever the outcome holds
get_value_empty(T, val) ==
    IF val.tag = "error"
    THEN sync_wait_error_visitor(val.err)
    ELSE Absent

\* shared_state::get_value. The two leading branches return for both values
\* of Type, so the error and stopped handling below them is never reached.
get_value(T, val) ==
    IF T = "single"
    THEN IF val.tag = "result"
         THEN Present(val.payload.tup)          \* hpx::get<0>(hpx::get<result_type>)
         ELSE Throw(bad_variant_access)
    ELSE IF T = "variant"
    THEN IF val.tag = "result"
         THEN Present(val.payload)              \* hpx::get<result_type>
         ELSE Throw(bad_variant_access)
    ELSE IF val.tag = "error"
    THEN sync_wait_error_visitor(val.err)
    ELSE Absent

\* Reading the outcome while emplace is still writing it is a data race:
\* the read may see the old alternative or a partially written payload
get_value_race == {Throw(bad_variant_access), [kind |-> "present_indeterminate"]}

(***************************************************************************)
(* all_reduce.hpp: definitions                                             *)
(***************************************************************************)
Gens == 0..MaxGen
SiteIds == 0..(MaxSites - 1)
Sites == 0..(num_sites - 1)

\* the value of a defaulted this_site_arg / generation_arg: std::size_t(-1)
NoSite == -1
NoGeneration == -1

\* a default-constructed slot
NoValue == 0

\* the local values a site may pass to all_reduce
LocalVals == {1, 2}

Ops == {"plus", "minus"}
Apply(f, a, b) == IF f = "plus" THEN a + b ELSE a - b

\* agas::get_locality_id() of the calling site
get_locality_id(site) == site

\* create_communicator: the communicator is keyed by basename and generation
create_communicator(basename, nsites, this_site, generation, root_site) ==
    [basename |-> basename, generation |-> generation]

Comms == [basename : {"b"}, generation : Gens \cup {NoGeneration}]
\* The slot buffers the callers can address: the communicator of a basename
\* call with a defaulted generation, or the callers' handle with any
\* generation
BufKeys ==
    {k \in Comms \X (Gens \cup {NoGeneration}) :
        k[1].generation = NoGeneration \/ k[2] = NoGeneration}

\* the communicator the callers of the handle overload have created up front
HandleComm == create_communicator("b", MaxSites, 0, NoGeneration, 0)

EmptyBuf ==
    [data |-> [i \in SiteIds |-> NoValue],
     set |-> {},
     data_available |-> FALSE,
     folds |-> 0,
     reduce_calls |-> 0]

NoCall ==
    [st |-> "none", err |-> "none", val |-> NoValue, res |-> NoValue,
     comm |-> HandleComm, gen |-> NoGeneration, which |-> NoSite,
     owner |-> "none"]

\* hpx::reduce(first, last, init, f) over data[i..n-1]: left fold
RECURSIVE reduce(_, _, _, _, _)
reduce(data, i, n, init, f) ==
    IF i >= n THEN init
    ELSE reduce(data, i + 1, n, Apply(f, init, data[i]), f)

\* a step function that stores the contribution in every slot
all_reduce_step_all_slots(data, which, t) == [j \in DOMAIN data |-> t]

\* the step function: data[which] = t
all_reduce_step(data, which, t) == [data EXCEPT ![which] = t]

\* a finalizer that folds from data.begin(), counting slot 0 twice
all_reduce_finalizer_from_begin(data, data_available, n, f) ==
    IF ~data_available /\ n > 1
    THEN LET d == [data EXCEPT ![0] = reduce(data, 0, n, data[0], f)]
         IN  [data |-> d, data_available |-> TRUE, result |-> d[0],
              folds |-> 1, reduce_calls |-> n]
    ELSE [data |-> data, data_available |-> data_available,
          result |-> data[0], folds |-> 0, reduce_calls |-> 0]

\* a finalizer that does not test the computed flag
all_reduce_finalizer_unguarded(data, data_available, n, f) ==
    IF n > 1
    THEN LET d == [data EXCEPT ![0] = reduce(data, 1, n, data[0], f)]
         IN  [data |-> d, data_available |-> TRUE, result |-> d[0],
              folds |-> 1, reduce_calls |-> n - 1]
    ELSE [data |-> data, data_available |-> data_available,
          result |-> data[0], folds |-> 0, reduce_calls |-> 0]

\* a finalizer that folds but does not mark the result as computed
all_reduce_finalizer_unmarked(data, data_available, n, f) ==
    IF ~data_available /\ n > 1
    THEN LET d == [data EXCEPT ![0] = reduce(data, 1, n, data[0], f)]
         IN  [data |-> d, data_available |-> FALSE, result |-> d[0],
              folds |-> 1, reduce_calls |-> n - 1]
    ELSE [data |-> data, data_available |-> data_available,
          result |-> data[0], folds |-> 0, reduce_calls |-> 0]

\* a finalizer that reads slot 0 for its result before folding into it
all_reduce_finalizer_stale(data, data_available, n, f) ==
    IF ~data_available /\ n > 1
    THEN LET d == [data EXCEPT ![0] = reduce(data, 1, n, data[0], f)]
         IN  [data |-> d, data_available |-> TRUE, result |-> data[0],
              folds |-> 1, reduce_calls |-> n - 1]
    ELSE [data |-> data, data_available |-> data_available,
          result |-> data[0], folds |-> 0, reduce_calls |-> 0]

\* a finalizer that does not test data.size() > 1
all_reduce_finalizer_any_size(data, data_available, n, f) ==
    IF ~data_available
    THEN LET d == [data EXCEPT ![0] = reduce(data, 1, n, data[0], f)]
         IN  [data |-> d, data_available |-> TRUE, result |-> d[0],
              folds |-> 1, reduce_calls |-> n - 1]
    ELSE [data |-> data, data_available |-> data_available,
          result |-> data[0], folds |-> 0, reduce_calls |-> 0]

\* the finalizer: fold slots 1..n-1 into slot 0 once, then return slot 0.
\* n is data.size(); folds and reduce_calls count what this invocation did.
all_reduce_finalizer(data, data_available, n, f) ==
    IF ~data_available /\ n > 1
    THEN LET d == [data EXCEPT ![0] = reduce(data, 1, n, data[0], f)]
         IN  [data |-> d, data_available |-> TRUE, result |-> d[0],
              folds |-> 1, reduce_calls |-> n - 1]
    ELSE [data |-> data, data_available |-> data_available,
          result |-> data[0], folds |-> 0, reduce_calls |-> 0]

\* The rounds that are run: one round of any generation, or the two
\* successive rounds of generations 1 and 2 on one basename
Rounds(o) ==
    {{g} : g \in Gens} \cup (IF o = "basename" THEN {{1, 2}} ELSE {})

\* the rounds that are run and their inputs; sync_wait is not in use
InitAR ==
    /\ targets = <<>>
    /\ this_pu = 0
    /\ schedule = "static_"
    /\ cpc = "start"
    /\ thrown = "none"
    /\ exec_ = no_init
    /\ block_execs_ = <<>>
    /\ init_todo = {}
    /\ other = NoExecutor
    /\ cmp = NoCmp
    /\ bpc = "idle"
    /\ mode = "sync"
    /\ size = 0
    /\ bad = NoElem
    /\ tasks = [i \in Indices |-> NoTask]
    /\ count = [e \in Elements |-> 0]
    /\ ncalls = 0
    /\ outcomes = <<>>
    /\ completion_scheduler = FALSE
    /\ scheduler_sync_wait = FALSE
    /\ sender_sync_wait = FALSE
    /\ Type = "single"
    /\ inl = FALSE
    /\ sig = [kind |-> "stopped"]
    /\ wpc = "construct"
    /\ spc = "idle"
    /\ mtx = "free"
    /\ set_called = FALSE
    /\ value = monostate
    /\ cv_waiting = FALSE
    /\ wake = "none"
    /\ ret = NotReturned
    /\ overload \in {"handle", "basename"}
    /\ op \in Ops
    /\ num_sites \in 1..MaxSites
    /\ gens \in Rounds(overload)
    /\ calls = [c \in Gens \X SiteIds |-> NoCall]
    /\ bufs = [k \in BufKeys |-> EmptyBuf]

\* an all_reduce without the generation check
all_reduce_unchecked(c, fid, local_result, this_site_arg, generation) ==
    LET this_site ==
            IF this_site_arg = NoSite THEN get_locality_id(c[2])
            ELSE this_site_arg
    IN  /\ calls' = [calls EXCEPT ![c] =
                        [st |-> "issued", err |-> "none",
                         val |-> local_result, res |-> NoValue, comm |-> fid,
                         gen |-> generation, which |-> this_site,
                         owner |-> "continuation"]]
        /\ UNCHANGED <<overload, op, num_sites, gens, bufs>>

\* an all_reduce that rejects generation 1 as well
all_reduce_rejecting(c, fid, local_result, this_site_arg, generation) ==
    LET this_site ==
            IF this_site_arg = NoSite THEN get_locality_id(c[2])
            ELSE this_site_arg
    IN  /\ IF generation = 0 \/ generation = 1
           THEN calls' = [calls EXCEPT ![c] =
                            [NoCall EXCEPT !.st = "failed",
                                           !.err = "bad_parameter",
                                           !.owner = "released"]]
           ELSE calls' = [calls EXCEPT ![c] =
                            [st |-> "issued", err |-> "none",
                             val |-> local_result, res |-> NoValue,
                             comm |-> fid, gen |-> generation,
                             which |-> this_site,
                             owner |-> "continuation"]]
        /\ UNCHANGED <<overload, op, num_sites, gens, bufs>>

\* all_reduce(communicator fid, local_result, op, this_site, generation):
\* generation 0 gives an exceptional future; otherwise the continuation
\* all_reduce_data on fid owns the handle c and sends the
\* communication_get action, which runs beside the continuation
all_reduce(c, fid, local_result, this_site_arg, generation) ==
    LET this_site ==
            IF this_site_arg = NoSite THEN get_locality_id(c[2])
            ELSE this_site_arg
    IN  /\ IF generation = 0
           THEN calls' = [calls EXCEPT ![c] =
                            [NoCall EXCEPT !.st = "failed",
                                           !.err = "bad_parameter",
                                           !.owner = "released"]]
           ELSE calls' = [calls EXCEPT ![c] =
                            [st |-> "issued", err |-> "none",
                             val |-> local_result, res |-> NoValue,
                             comm |-> fid, gen |-> generation,
                             which |-> this_site,
                             owner |-> "continuation"]]
        /\ UNCHANGED <<overload, op, num_sites, gens, bufs>>

\* a basename overload that leaves the generation out of the communicator
all_reduce_basename_shared(c, basename, v, nsites, this_site, g, root) ==
    all_reduce(c,
        create_communicator(basename, nsites, this_site, NoGeneration, root),
        v, this_site, NoGeneration)

\* all_reduce(char const* basename, local_result, op, num_sites, this_site,
\* generation, root_site) for local_result v and generation g: g goes to
\* create_communicator only, the handle overload is called with a defaulted
\* generation_arg
all_reduce_basename(c, basename, v, nsites, this_site, g, root) ==
    all_reduce(c,
        create_communicator(basename, nsites, this_site, g, root),
        v, this_site, NoGeneration)

\* the local values a site passes in the round of generation g: any local
\* value when one round is run; when two rounds are run, each round has a
\* value of its own (1 in generation 1, 2 in generation 2)
CallVals(g) == IF Cardinality(gens) > 1 THEN LocalVals \cap {g} ELSE LocalVals

\* an all_reduce_data that returns without setting a completion callback
all_reduce_data_return_unowned(is_ready) == "released"

\* the end of all_reduce_data: if the future of the action is not ready the
\* handle is moved into its completion callback, else it is dropped with
\* the continuation; the result is the owner of the handle afterwards
all_reduce_data_return(is_ready) ==
    IF ~is_ready THEN "callback" ELSE "released"

(* ---- actions ----------------------------------------------------------- *)

\* site s calls the communicator-handle overload for generation g
CallHandle ==
    /\ overload = "handle"
    /\ \E g \in gens, s \in Sites : \E v \in CallVals(g) :
        /\ calls[<<g, s>>].st = "none"
        /\ \E this_site \in {NoSite, s} :
              all_reduce(<<g, s>>, HandleComm, v, this_site, g)
    /\ UNCHANGED <<swvars, exvars>>

\* site s calls the basename overload for generation g
CallBasename ==
    /\ overload = "basename"
    /\ \E g \in gens, s \in Sites : \E v \in CallVals(g) :
        /\ calls[<<g, s>>].st = "none"
        /\ all_reduce_basename(<<g, s>>, "b", v, num_sites, s, g, 0)
    /\ UNCHANGED <<swvars, exvars>>

\* communication_operation::get reaches the communicator: handle_data runs
\* the step function under the communicator's lock and marks the site
handle_data_step ==
    /\ \E c \in Gens \X SiteIds :
        /\ calls[c].st = "issued"
        /\ LET k == <<calls[c].comm, calls[c].gen>>
           IN  bufs' = [bufs EXCEPT ![k] =
                   [@ EXCEPT !.data = all_reduce_step(@, calls[c].which,
                                          calls[c].val),
                             !.set = @ \cup {calls[c].which}]]
        /\ calls' = [calls EXCEPT ![c].st = "stepped"]
    /\ UNCHANGED <<overload, op, num_sites, gens>>
    /\ UNCHANGED <<swvars, exvars>>

\* once all sites are marked, handle_data runs each site's finalizer under
\* the communicator's lock and makes the site's future ready with its
\* result; a completion callback set on the future is run and destroyed
handle_data_finalize ==
    /\ \E c \in Gens \X SiteIds :
        /\ calls[c].st = "stepped"
        /\ LET k == <<calls[c].comm, calls[c].gen>>
               r == all_reduce_finalizer(bufs[k].data,
                        bufs[k].data_available, num_sites, op)
           IN  /\ bufs[k].set = Sites
               /\ bufs' = [bufs EXCEPT ![k] =
                      [@ EXCEPT !.data = r.data,
                                !.data_available = r.data_available,
                                !.folds = @ + r.folds,
                                !.reduce_calls = @ + r.reduce_calls]]
               /\ calls' = [calls EXCEPT
                      ![c].st = "ready",
                      ![c].res = r.result,
                      ![c].owner = IF @ = "callback" THEN "released" ELSE @]
    /\ UNCHANGED <<overload, op, num_sites, gens>>
    /\ UNCHANGED <<swvars, exvars>>

\* the continuation all_reduce_data of a call tests result.is_ready() and
\* returns the future
ContinuationReturn ==
    /\ \E c \in Gens \X SiteIds :
        /\ calls[c].owner = "continuation"
        /\ calls' = [calls EXCEPT ![c].owner =
               all_reduce_data_return(calls[c].st = "ready")]
    /\ UNCHANGED <<overload, op, num_sites, gens, bufs>>
    /\ UNCHANGED <<swvars, exvars>>

NextAR ==
    \/ CallHandle
    \/ CallBasename
    \/ ContinuationReturn
    \/ handle_data_step
    \/ handle_data_finalize

AllReduceSpec == InitAR /\ [][NextAR]_vars

\* the sites, their continuations and the communicator are scheduled fairly
AllReduceFairSpec == InitAR /\ [][NextAR]_vars /\ WF_vars(NextAR)

\* the state after construction; all_reduce is not in use
InitSW ==
    /\ targets = <<>>
    /\ this_pu = 0
    /\ schedule = "static_"
    /\ cpc = "start"
    /\ thrown = "none"
    /\ exec_ = no_init
    /\ block_execs_ = <<>>
    /\ init_todo = {}
    /\ other = NoExecutor
    /\ cmp = NoCmp
    /\ bpc = "idle"
    /\ mode = "sync"
    /\ size = 0
    /\ bad = NoElem
    /\ tasks = [i \in Indices |-> NoTask]
    /\ count = [e \in Elements |-> 0]
    /\ ncalls = 0
    /\ outcomes = <<>>
    /\ overload = "handle"
    /\ op = "plus"
    /\ num_sites = 1
    /\ gens = {}
    /\ calls = [c \in Gens \X SiteIds |-> NoCall]
    /\ bufs = [k \in BufKeys |-> EmptyBuf]
    /\ completion_scheduler \in BOOLEAN
    /\ scheduler_sync_wait \in BOOLEAN
    /\ sender_sync_wait \in BOOLEAN
    /\ Type \in {"single", "variant"}
    /\ inl \in BOOLEAN
    /\ sig \in Signals
    /\ wpc = "dispatch"
    /\ spc = "idle"
    /\ mtx = "free"
    /\ set_called = FALSE
    /\ value = monostate
    /\ cv_waiting = FALSE
    /\ wake = "none"
    /\ ret = NotReturned

(* ---- the customization point object sync_wait_t ----------------------- *)

\* a requires-clause that accepts every sender with a completion scheduler
tag_override_invoke_any_scheduler(has_scheduler, scheduler_invocable) ==
    has_scheduler

\* the requires-clause of tag_override_invoke: the sender has a completion
\* scheduler for set_value_t and sync_wait_t is tag-invocable with that
\* scheduler and the sender (is_completion_scheduler_tag_invocable_v)
tag_override_invoke_enabled(has_scheduler, scheduler_invocable) ==
    has_scheduler /\ scheduler_invocable

\* tag_priority<sync_wait_t>::operator(): the first well-formed one of
\* tag_override_invoke, tag_invoke and tag_fallback_invoke
tag_priority(override, invoke) ==
    IF override THEN "tag_override_invoke"
    ELSE IF invoke THEN "tag_invoke"
    ELSE "tag_fallback_invoke"

\* sync_wait(sender): the call is dispatched; a customization takes the
\* call over, the fallback goes on to build the shared state
sync_wait_dispatch ==
    /\ wpc = "dispatch"
    /\ LET chosen == tag_priority(
                tag_override_invoke_enabled(completion_scheduler,
                                            scheduler_sync_wait),
                sender_sync_wait)
       IN  wpc' = CASE chosen = "tag_override_invoke" -> "delegated_scheduler"
                    [] chosen = "tag_invoke" -> "delegated_sender"
                    [] OTHER -> "construct"
    /\ UNCHANGED <<arvars, exvars, dispvars>>
    /\ UNCHANGED <<Type, inl, sig, spc, mtx, set_called, value, cv_waiting,
                   wake, ret>>

(* ---- the thread calling sync_wait: tag_fallback_invoke(sync_wait_t, s) -- *)

\* state_type state{};
sync_wait_construct ==
    /\ wpc = "construct"
    /\ wpc' = "connect"
    /\ set_called' = FALSE
    /\ value' = monostate
    /\ UNCHANGED <<arvars, exvars, dispvars>>
    /\ UNCHANGED <<Type, inl, sig, spc, mtx, cv_waiting, wake, ret>>

\* auto op_state = connect(sender, receiver_type{state});
sync_wait_connect ==
    /\ wpc = "connect"
    /\ wpc' = "start"
    /\ UNCHANGED <<arvars, exvars, dispvars>>
    /\ UNCHANGED <<Type, inl, sig, spc, mtx, set_called, value, cv_waiting,
                   wake, ret>>

\* start(op_state): the sender begins to run
sync_wait_start ==
    /\ wpc = "start"
    /\ wpc' = "starting"
    /\ spc' = "emplace"
    /\ UNCHANGED <<arvars, exvars, dispvars>>
    /\ UNCHANGED <<Type, inl, sig, mtx, set_called, value, cv_waiting, wake,
                   ret>>

\* a caller that goes from start(op_state) straight to get_value()
sync_wait_start_return_no_wait ==
    /\ wpc = "starting"
    /\ inl => spc = "done"
    /\ wpc' = "wait_returned"
    /\ UNCHANGED <<arvars, exvars, dispvars>>
    /\ UNCHANGED <<Type, inl, sig, spc, mtx, set_called, value, cv_waiting,
                   wake, ret>>

\* start(op_state) returns: at once when the sender completes on another
\* thread, after the receiver was signalled when it completes inline
sync_wait_start_return ==
    /\ wpc = "starting"
    /\ inl => spc = "done"
    /\ wpc' = "check1"
    /\ UNCHANGED <<arvars, exvars, dispvars>>
    /\ UNCHANGED <<Type, inl, sig, spc, mtx, set_called, value, cv_waiting,
                   wake, ret>>

\* wait(): if (!set_called)   -- unlocked check
wait_check_unlocked ==
    /\ wpc = "check1"
    /\ wpc' = IF set_called THEN "wait_returned" ELSE "lock"
    /\ UNCHANGED <<arvars, exvars, dispvars>>
    /\ UNCHANGED <<Type, inl, sig, spc, mtx, set_called, value, cv_waiting,
                   wake, ret>>

\* wait(): std::unique_lock<mutex_type> l(mtx);
wait_lock ==
    /\ wpc = "lock"
    /\ mtx = "free"
    /\ mtx' = "waiter"
    /\ wpc' = "check2"
    /\ UNCHANGED <<arvars, exvars, dispvars>>
    /\ UNCHANGED <<Type, inl, sig, spc, set_called, value, cv_waiting, wake,
                   ret>>

\* wait(): if (!set_called) cond_var.wait(l);   -- locked check; the wait
\* releases the lock and blocks in one step
wait_check_locked ==
    /\ wpc = "check2"
    /\ IF set_called
       THEN /\ wpc' = "unlock"
            /\ UNCHANGED <<mtx, cv_waiting>>
       ELSE /\ wpc' = "blocked"
            /\ mtx' = "free"
            /\ cv_waiting' = TRUE
    /\ UNCHANGED <<arvars, exvars, dispvars>>
    /\ UNCHANGED <<Type, inl, sig, spc, set_called, value, wake, ret>>

\* cond_var.wait(l) unblocks without a notify_one (spurious wakeup)
cond_var_spurious_wakeup ==
    /\ wpc = "blocked"
    /\ cv_waiting
    /\ cv_waiting' = FALSE
    /\ wake' = "spurious"
    /\ wpc' = "reacquire"
    /\ UNCHANGED <<arvars, exvars, dispvars>>
    /\ UNCHANGED <<Type, inl, sig, spc, mtx, set_called, value, ret>>

\* cond_var.wait(l) takes the lock again before it returns
wait_reacquire ==
    /\ wpc = "reacquire"
    /\ mtx = "free"
    /\ mtx' = "waiter"
    /\ wpc' = "unlock"
    /\ UNCHANGED <<arvars, exvars, dispvars>>
    /\ UNCHANGED <<Type, inl, sig, spc, set_called, value, cv_waiting, wake,
                   ret>>

\* wait(): the unique_lock goes out of scope, wait() returns
wait_unlock ==
    /\ wpc = "unlock"
    /\ mtx = "waiter"
    /\ mtx' = "free"
    /\ wpc' = "wait_returned"
    /\ UNCHANGED <<arvars, exvars, dispvars>>
    /\ UNCHANGED <<Type, inl, sig, spc, set_called, value, cv_waiting, wake,
                   ret>>

\* return state.get_value();
sync_wait_get_value ==
    /\ wpc = "wait_returned"
    /\ wpc' = "done"
    /\ IF value.tag = "writing"
       THEN ret' \in get_value_race
       ELSE ret' = get_value(Type, value)
    /\ UNCHANGED <<arvars, exvars, dispvars>>
    /\ UNCHANGED <<Type, inl, sig, spc, mtx, set_called, value, cv_waiting,
                   wake>>

(* ---- the thread completing the sender: the receiver's tag_invokes ------ *)

\* set_value: r.state.value.emplace<result_type>(forward_as_tuple(us...))
set_value_emplace ==
    /\ spc = "emplace"
    /\ sig.kind = "value"
    /\ value' = [tag |-> "writing"]
    /\ spc' = "emplaced"
    /\ UNCHANGED <<arvars, exvars, dispvars>>
    /\ UNCHANGED <<Type, inl, sig, wpc, mtx, set_called, cv_waiting, wake, ret>>

set_value_emplaced ==
    /\ spc = "emplaced"
    /\ sig.kind = "value"
    /\ value' = [tag |-> "result",
                 payload |-> result_type(Type, forward_as_tuple(sig.args))]
    /\ spc' = "sig_lock"
    /\ UNCHANGED <<arvars, exvars, dispvars>>
    /\ UNCHANGED <<Type, inl, sig, wpc, mtx, set_called, cv_waiting, wake, ret>>

\* set_error: r.state.value.emplace<error_type>(error)
set_error_emplace ==
    /\ spc = "emplace"
    /\ sig.kind = "error"
    /\ value' = [tag |-> "writing"]
    /\ spc' = "emplaced"
    /\ UNCHANGED <<arvars, exvars, dispvars>>
    /\ UNCHANGED <<Type, inl, sig, wpc, mtx, set_called, cv_waiting, wake, ret>>

set_error_emplaced ==
    /\ spc = "emplaced"
    /\ sig.kind = "error"
    /\ value' = [tag |-> "error", err |-> [eptr |-> sig.eptr, e |-> sig.e]]
    /\ spc' = "sig_lock"
    /\ UNCHANGED <<arvars, exvars, dispvars>>
    /\ UNCHANGED <<Type, inl, sig, wpc, mtx, set_called, cv_waiting, wake, ret>>

\* set_stopped: only r.signal_set_called(), the outcome stays monostate
set_stopped ==
    /\ spc = "emplace"
    /\ sig.kind = "stopped"
    /\ spc' = "sig_lock"
    /\ UNCHANGED <<arvars, exvars, dispvars>>
    /\ UNCHANGED <<Type, inl, sig, wpc, mtx, set_called, value, cv_waiting,
                   wake, ret>>

\* signal_set_called(): std::unique_lock<mutex_type> l(state.mtx);
signal_lock ==
    /\ spc = "sig_lock"
    /\ mtx = "free"
    /\ mtx' = "signaller"
    /\ spc' = "sig_set"
    /\ UNCHANGED <<arvars, exvars, dispvars>>
    /\ UNCHANGED <<Type, inl, sig, wpc, set_called, value, cv_waiting, wake,
                   ret>>

\* signal_set_called(): state.set_called = true;
signal_set ==
    /\ spc = "sig_set"
    /\ set_called' = TRUE
    /\ spc' = "sig_notify"
    /\ UNCHANGED <<arvars, exvars, dispvars>>
    /\ UNCHANGED <<Type, inl, sig, wpc, mtx, value, cv_waiting, wake, ret>>

\* a signal_set_called() that forgets to notify the waiter
signal_notify_lost ==
    /\ spc = "sig_notify"
    /\ spc' = "sig_unlock"
    /\ UNCHANGED <<arvars, exvars, dispvars>>
    /\ UNCHANGED <<Type, inl, sig, wpc, mtx, set_called, value, cv_waiting,
                   wake, ret>>

\* signal_set_called(): state.cond_var.notify_one();
signal_notify ==
    /\ spc = "sig_notify"
    /\ spc' = "sig_unlock"
    /\ IF cv_waiting
       THEN /\ cv_waiting' = FALSE
            /\ wake' = "notify"
            /\ wpc' = "reacquire"
       ELSE UNCHANGED <<cv_waiting, wake, wpc>>
    /\ UNCHANGED <<arvars, exvars, dispvars>>
    /\ UNCHANGED <<Type, inl, sig, mtx, set_called, value, ret>>

\* a signaller that clears the flag again when it releases the lock
signal_unlock_reset ==
    /\ spc = "sig_unlock"
    /\ mtx = "signaller"
    /\ mtx' = "free"
    /\ spc' = "done"
    /\ set_called' = FALSE
    /\ UNCHANGED <<arvars, exvars, dispvars>>
    /\ UNCHANGED <<Type, inl, sig, wpc, value, cv_waiting, wake, ret>>

\* signal_set_called(): the unique_lock goes out of scope
signal_unlock ==
    /\ spc = "sig_unlock"
    /\ mtx = "signaller"
    /\ mtx' = "free"
    /\ spc' = "done"
    /\ UNCHANGED <<arvars, exvars, dispvars>>
    /\ UNCHANGED <<Type, inl, sig, wpc, set_called, value, cv_waiting, wake,
                   ret>>

Waiter ==
    \/ sync_wait_dispatch
    \/ sync_wait_construct
    \/ sync_wait_connect
    \/ sync_wait_start
    \/ sync_wait_start_return
    \/ wait_check_unlocked
    \/ wait_lock
    \/ wait_check_locked
    \/ wait_reacquire
    \/ wait_unlock
    \/ sync_wait_get_value

Signaller ==
    \/ set_value_emplace
    \/ set_value_emplaced
    \/ set_error_emplace
    \/ set_error_emplaced
    \/ set_stopped
    \/ signal_lock
    \/ signal_set
    \/ signal_notify
    \/ signal_unlock

NextSW ==
    \/ Waiter
    \/ Signaller
    \/ cond_var_spurious_wakeup

SyncWaitSpec == InitSW /\ [][NextSW]_vars

\* Both threads are scheduled fairly; a spurious wakeup is never guaranteed.
SyncWaitFairSpec ==
    /\ SyncWaitSpec
    /\ WF_vars(Waiter)
    /\ WF_vars(Signaller)

(***************************************************************************)
(* block_fork_join_executor: the constructor and the comparison            *)
(***************************************************************************)
\* the arguments of the constructor and the thread that runs it; sync_wait
\* and all_reduce are not in use
InitCtor ==
    /\ completion_scheduler = FALSE
    /\ scheduler_sync_wait = FALSE
    /\ sender_sync_wait = FALSE
    /\ Type = "single"
    /\ inl = FALSE
    /\ sig = [kind |-> "stopped"]
    /\ wpc = "construct"
    /\ spc = "idle"
    /\ mtx = "free"
    /\ set_called = FALSE
    /\ value = monostate
    /\ cv_waiting = FALSE
    /\ wake = "none"
    /\ ret = NotReturned
    /\ overload = "handle"
    /\ op = "plus"
    /\ num_sites = 1
    /\ gens = {}
    /\ calls = [c \in Gens \X SiteIds |-> NoCall]
    /\ bufs = [k \in BufKeys |-> EmptyBuf]
    /\ targets \in TargetLists
    /\ this_pu \in Cores
    /\ schedule \in Schedules
    /\ cpc = "start"
    /\ thrown = "none"
    /\ exec_ = no_init
    /\ block_execs_ = <<>>
    /\ init_todo = {}
    /\ other = NoExecutor
    /\ cmp = NoCmp
    /\ bpc = "idle"
    /\ mode = "sync"
    /\ size = 0
    /\ bad = NoElem
    /\ tasks = [i \in Indices |-> NoTask]
    /\ count = [e \in Elements |-> 0]
    /\ ncalls = 0
    /\ outcomes = <<>>

\* the executor being constructed, as an object
this == [exec_ |-> exec_, block_execs_ |-> block_execs_]

\* the member initializer list: cores_for_targets raises, or exec_ is made
construct_exec ==
    /\ cpc = "start"
    /\ LET r == cores_for_targets(targets, this_pu)
       IN  IF r.thrown # "none"
           THEN /\ thrown' = r.thrown
                /\ cpc' = "failed"
                /\ UNCHANGED exec_
           ELSE /\ exec_' = exec_init(1, targets, this_pu, schedule)
                /\ cpc' = "body"
                /\ UNCHANGED thrown
    /\ UNCHANGED <<targets, this_pu, schedule, block_execs_, init_todo,
                   other, cmp>>
    /\ UNCHANGED <<swvars, arvars, bulkvars>>

\* the constructor body: with more than one target block_execs_ is filled
\* with no_init executors and the bulk call of init_f is started on exec_
construct_body ==
    /\ cpc = "body"
    /\ IF Len(targets) > 1
       THEN /\ block_execs_' = [i \in 1..Len(targets) |-> no_init]
            /\ init_todo' = 1..Len(targets)
            /\ cpc' = "init"
       ELSE /\ cpc' = "done"
            /\ UNCHANGED <<block_execs_, init_todo>>
    /\ UNCHANGED <<targets, this_pu, schedule, thrown, exec_, other, cmp>>
    /\ UNCHANGED <<swvars, arvars, bulkvars>>

\* an init_f that stores the sub-executor of index in the following element
construct_init_f_next_element ==
    /\ cpc = "init"
    /\ \E index \in init_todo :
        /\ block_execs_' = [block_execs_ EXCEPT
               ![(index % Len(targets)) + 1] =
                   init_f(1, targets, schedule, index)]
        /\ init_todo' = init_todo \ {index}
    /\ UNCHANGED <<targets, this_pu, schedule, cpc, thrown, exec_, other,
                   cmp>>
    /\ UNCHANGED <<swvars, arvars, bulkvars>>

\* a worker of exec_ runs init_f(index)
construct_init_f ==
    /\ cpc = "init"
    /\ \E index \in init_todo :
        /\ block_execs_' = [block_execs_ EXCEPT
               ![index] = init_f(1, targets, schedule, index)]
        /\ init_todo' = init_todo \ {index}
    /\ UNCHANGED <<targets, this_pu, schedule, cpc, thrown, exec_, other,
                   cmp>>
    /\ UNCHANGED <<swvars, arvars, bulkvars>>

\* a constructor that does not wait for the bulk call of init_f
construct_return_early ==
    /\ cpc = "init"
    /\ cpc' = "done"
    /\ UNCHANGED <<targets, this_pu, schedule, thrown, exec_, block_execs_,
                   init_todo, other, cmp>>
    /\ UNCHANGED <<swvars, arvars, bulkvars>>

\* exec_.bulk_sync_execute(init_f, ...) returns and so does the constructor
construct_return ==
    /\ cpc = "init"
    /\ init_todo = {}
    /\ cpc' = "done"
    /\ UNCHANGED <<targets, this_pu, schedule, thrown, exec_, block_execs_,
                   init_todo, other, cmp>>
    /\ UNCHANGED <<swvars, arvars, bulkvars>>

\* the implicit copy constructor: both members are copied
copy_construct ==
    /\ cpc = "done"
    /\ other = NoExecutor
    /\ other' = [obj |-> this, from |-> "copy"]
    /\ UNCHANGED <<targets, this_pu, schedule, cpc, thrown, exec_,
                   block_execs_, init_todo, cmp>>
    /\ UNCHANGED <<swvars, arvars, bulkvars>>

\* a second executor is constructed by the same thread from the first k
\* targets
construct_second ==
    /\ cpc = "done"
    /\ other = NoExecutor
    /\ \E k \in 1..Len(targets) :
        /\ cores_for_targets(SubSeq(targets, 1, k), this_pu).thrown = "none"
        /\ other' = [obj |-> block_fork_join_executor(2,
                                 SubSeq(targets, 1, k), this_pu, schedule),
                     from |-> "constructed"]
    /\ UNCHANGED <<targets, this_pu, schedule, cpc, thrown, exec_,
                   block_execs_, init_todo, cmp>>
    /\ UNCHANGED <<swvars, arvars, bulkvars>>

\* exec == other and exec != other are evaluated
compare ==
    /\ other # NoExecutor
    /\ ~cmp.done
    /\ cmp' = [done |-> TRUE, eq |-> operator_eq(this, other.obj),
               ne |-> operator_ne(this, other.obj)]
    /\ UNCHANGED <<targets, this_pu, schedule, cpc, thrown, exec_,
                   block_execs_, init_todo, other>>
    /\ UNCHANGED <<swvars, arvars, bulkvars>>

NextCtor ==
    \/ construct_exec
    \/ construct_body
    \/ construct_init_f
    \/ construct_return
    \/ copy_construct
    \/ construct_second
    \/ compare

ConstructSpec == InitCtor /\ [][NextCtor]_vars

(***************************************************************************)
(* block_fork_join_executor: bulk execution                                *)
(***************************************************************************)
\* an executor constructed from 1..MaxTargets targets of one core each by a
\* thread on core 0; sync_wait and all_reduce are not in use
InitBulk ==
    /\ completion_scheduler = FALSE
    /\ scheduler_sync_wait = FALSE
    /\ sender_sync_wait = FALSE
    /\ Type = "single"
    /\ inl = FALSE
    /\ sig = [kind |-> "stopped"]
    /\ wpc = "construct"
    /\ spc = "idle"
    /\ mtx = "free"
    /\ set_called = FALSE
    /\ value = monostate
    /\ cv_waiting = FALSE
    /\ wake = "none"
    /\ ret = NotReturned
    /\ overload = "handle"
    /\ op = "plus"
    /\ num_sites = 1
    /\ gens = {}
    /\ calls = [c \in Gens \X SiteIds |-> NoCall]
    /\ bufs = [k \in BufKeys |-> EmptyBuf]
    /\ \E n \in 1..MaxTargets : targets = [i \in 1..n |-> {i - 1}]
    /\ this_pu = 0
    /\ schedule = "static_"
    /\ cpc = "done"
    /\ thrown = "none"
    /\ exec_ = block_fork_join_executor(1, targets, 0, "static_").exec_
    /\ block_execs_ =
           block_fork_join_executor(1, targets, 0, "static_").block_execs_
    /\ init_todo = {}
    /\ other = NoExecutor
    /\ cmp = NoCmp
    /\ bpc = "idle"
    /\ mode = "sync"
    /\ size = 0
    /\ bad = NoElem
    /\ tasks = [i \in Indices |-> NoTask]
    /\ count = [e \in Elements |-> 0]
    /\ ncalls = 0
    /\ outcomes = <<>>

\* bulk_sync_execute(f, shape), directly or inside bulk_async_execute: with
\* no hierarchy the call is forwarded to exec_, else outer_func is given to
\* exec_ over the outer shape 0..num_targets-1
bulk_execute_call ==
    /\ cpc = "done"
    /\ bpc \in {"idle", "returned"}
    /\ ncalls + 1 \in CallNumbers
    /\ \E m \in {"sync", "async"} : \E sz \in 0..MaxSize :
       \E b \in (0..(sz - 1)) \cup {NoElem} :
        /\ mode' = m
        /\ size' = sz
        /\ bad' = b
        /\ LET num_targets == Len(block_execs_)
           IN  IF num_targets = 0
               THEN /\ bpc' = "forward"
                    /\ tasks' = [i \in Indices |->
                           IF i = 0
                           THEN [st |-> "inner", part_begin |-> 0,
                                 part_end |-> sz, pending |-> 0..(sz - 1),
                                 running |-> {}, exc |-> NoExc,
                                 on |-> exec_.id]
                           ELSE NoTask]
               ELSE /\ bpc' = "outer"
                    /\ tasks' = [i \in Indices |->
                           IF i < num_targets
                           THEN [NoTask EXCEPT !.st = "todo"]
                           ELSE NoTask]
    /\ ncalls' = ncalls + 1
    /\ count' = [e \in Elements |-> 0]
    /\ UNCHANGED outcomes
    /\ UNCHANGED <<swvars, arvars, ctorvars>>

\* an outer_func that calls bulk_sync_execute on the first sub-executor
outer_func_first_executor ==
    /\ bpc = "outer"
    /\ \E index \in Indices :
        /\ tasks[index].st = "todo"
        /\ LET num_targets == Len(block_execs_)
           IN  tasks' = [tasks EXCEPT ![index] =
                   [st |-> "inner",
                    part_begin |-> part_begin(index, size, num_targets),
                    part_end |-> part_end(index, size, num_targets),
                    pending |-> inner_shape(index, size, num_targets),
                    running |-> {}, exc |-> NoExc,
                    on |-> block_execs_[1].id]]
    /\ UNCHANGED <<bpc, mode, size, bad, count, ncalls, outcomes>>
    /\ UNCHANGED <<swvars, arvars, ctorvars>>

\* an outer_func that is run for the indices with a non-empty part only
outer_func_nonempty_only ==
    /\ bpc = "outer"
    /\ \E index \in Indices :
        /\ tasks[index].st = "todo"
        /\ LET num_targets == Len(block_execs_)
           IN  /\ part_begin(index, size, num_targets)
                      < part_end(index, size, num_targets)
               /\ tasks' = [tasks EXCEPT ![index] =
                      [st |-> "inner",
                       part_begin |-> part_begin(index, size, num_targets),
                       part_end |-> part_end(index, size, num_targets),
                       pending |-> inner_shape(index, size, num_targets),
                       running |-> {}, exc |-> NoExc,
                       on |-> block_execs_[index + 1].id]]
    /\ UNCHANGED <<bpc, mode, size, bad, count, ncalls, outcomes>>
    /\ UNCHANGED <<swvars, arvars, ctorvars>>

\* a worker of exec_ runs outer_func(index): it computes its part of the
\* shape and calls bulk_sync_execute on block_execs_[index]
outer_func ==
    /\ bpc = "outer"
    /\ \E index \in Indices :
        /\ tasks[index].st = "todo"
        /\ LET num_targets == Len(block_execs_)
           IN  tasks' = [tasks EXCEPT ![index] =
                   [st |-> "inner",
                    part_begin |-> part_begin(index, size, num_targets),
                    part_end |-> part_end(index, size, num_targets),
                    pending |-> inner_shape(index, size, num_targets),
                    running |-> {}, exc |-> NoExc,
                    on |-> block_execs_[index + 1].id]]
    /\ UNCHANGED <<bpc, mode, size, bad, count, ncalls, outcomes>>
    /\ UNCHANGED <<swvars, arvars, ctorvars>>

\* a worker of the executor running a part starts f on an element of it
invoke_begin ==
    /\ \E i \in Indices : \E e \in tasks[i].pending :
        /\ tasks[i].st = "inner"
        /\ tasks' = [tasks EXCEPT ![i].pending = @ \ {e},
                                  ![i].running = @ \cup {e}]
        /\ count' = [count EXCEPT ![e] = @ + 1]
    /\ UNCHANGED <<bpc, mode, size, bad, ncalls, outcomes>>
    /\ UNCHANGED <<swvars, arvars, ctorvars>>

\* f returns, or throws on the element bad; the executor keeps the exception
invoke_end ==
    /\ \E i \in Indices : \E e \in tasks[i].running :
        tasks' = [tasks EXCEPT ![i].running = @ \ {e},
                               ![i].exc = IF e = bad THEN e ELSE @]
    /\ UNCHANGED <<bpc, mode, size, bad, count, ncalls, outcomes>>
    /\ UNCHANGED <<swvars, arvars, ctorvars>>

\* the barrier of fork_join_executor::bulk_sync_execute: no invocation is
\* running and every element was taken, or a worker gave up on an exception
inner_barrier ==
    /\ \E i \in Indices :
        /\ tasks[i].st = "inner"
        /\ tasks[i].running = {}
        /\ tasks[i].pending = {} \/ tasks[i].exc # NoExc
        /\ tasks' = [tasks EXCEPT ![i].st = "joined"]
    /\ UNCHANGED <<bpc, mode, size, bad, count, ncalls, outcomes>>
    /\ UNCHANGED <<swvars, arvars, ctorvars>>

\* an outer_func that does not wait for the call on its sub-executor
outer_func_return_early ==
    /\ bpc = "outer"
    /\ \E index \in Indices :
        /\ tasks[index].st \in {"inner", "joined"}
        /\ tasks' = [tasks EXCEPT ![index].st =
               IF tasks[index].exc = NoExc THEN "done" ELSE "threw"]
    /\ UNCHANGED <<bpc, mode, size, bad, count, ncalls, outcomes>>
    /\ UNCHANGED <<swvars, arvars, ctorvars>>

\* block_execs_[index].bulk_sync_execute returns or raises, and so does
\* outer_func(index)
outer_func_return ==
    /\ bpc = "outer"
    /\ \E index \in Indices :
        /\ tasks[index].st = "joined"
        /\ tasks' = [tasks EXCEPT ![index].st =
               IF tasks[index].exc = NoExc THEN "done" ELSE "threw"]
    /\ UNCHANGED <<bpc, mode, size, bad, count, ncalls, outcomes>>
    /\ UNCHANGED <<swvars, arvars, ctorvars>>

\* what the bulk call gives its caller when the call on exec_ ended with e
bulk_result(e) ==
    IF mode = "sync" THEN bulk_sync_result(e) ELSE bulk_async_result(e)

\* the forwarded call on exec_ passed its barrier: the bulk call ends
bulk_return_forward ==
    /\ bpc = "forward"
    /\ tasks[0].st = "joined"
    /\ outcomes' = Append(outcomes, bulk_result(tasks[0].exc))
    /\ bpc' = "returned"
    /\ UNCHANGED <<mode, size, bad, tasks, count, ncalls>>
    /\ UNCHANGED <<swvars, arvars, ctorvars>>

\* the call of outer_func on exec_ passed its barrier: every outer_func
\* ended, or one raised and the ones not started were given up
bulk_return_hierarchy ==
    /\ bpc = "outer"
    /\ \A i \in Indices : tasks[i].st \in {"unused", "todo", "done", "threw"}
    /\ \/ \A i \in Indices : tasks[i].st # "todo"
       \/ \E i \in Indices : tasks[i].st = "threw"
    /\ \E e \in {tasks[i].exc : i \in Indices} :
        /\ e = NoExc => \A i \in Indices : tasks[i].st # "threw"
        /\ outcomes' = Append(outcomes, bulk_result(e))
    /\ bpc' = "returned"
    /\ UNCHANGED <<mode, size, bad, tasks, count, ncalls>>
    /\ UNCHANGED <<swvars, arvars, ctorvars>>

\* the steps of the worker threads of exec_ and of the sub-executors and the
\* returns of the blocking calls they are in
BulkWorkers ==
    \/ outer_func
    \/ invoke_begin
    \/ invoke_end
    \/ inner_barrier
    \/ outer_func_return
    \/ bulk_return_forward
    \/ bulk_return_hierarchy

NextBulk ==
    \/ bulk_execute_call
    \/ BulkWorkers

BulkSpec == InitBulk /\ [][NextBulk]_vars

\* the workers are scheduled fairly and every invocation of f terminates;
\* the caller need not make another bulk call
BulkFairSpec ==
    /\ BulkSpec
    /\ WF_vars(BulkWorkers)

(***************************************************************************)
(* Properties of sync_wait                                                 *)
(***************************************************************************)

\* the step in which tag_fallback_invoke calls state.get_value() and returns
GetValueStep == wpc = "wait_returned" /\ wpc' = "done"

\* the values a value signal carries, as the caller is to receive them
SentValues == [i \in 1..Len(sig.args) |-> sig.args[i].v]
SentResult ==
    IF Type = "single" THEN SentValues
    ELSE [alt |-> Len(sig.args), tup |-> SentValues]

C2_ErrorIsRaised ==
    [][(GetValueStep /\ set_called /\ sig.kind = "error")
          => ret' = Throw([what |-> IF sig.eptr THEN "rethrown" ELSE "typed",
                           e |-> sig.e])]_vars

\* C3: when the sender has completed with set_stopped(), sync_wait returns
\* an empty optional and raises nothing.
C3_StoppedIsAbsent ==
    [][(GetValueStep /\ set_called /\ sig.kind = "stopped")
          => ret' = Absent]_vars

\* C4: at the moment shared_state::wait() returns, a terminal signal has
\* been recorded, for every interleaving and every wakeup of the condition
\* variable.
C4_WaitReturnsAfterSignal == wpc = "wait_returned" => set_called

\* C5: no wakeup is missed: once the sender has delivered its terminal
\* signal (inline in start(), between the waiter's two flag checks or after
\* the waiter blocked), wait() eventually returns and sync_wait terminates.
C5_NoMissedWakeup == set_called ~> (wpc = "done")

C5_Witness ==
    /\ wpc = "done"
    /\ spc = "done"
    /\ set_called
    /\ wake = "notify"

(***************************************************************************)
(* Properties of all_reduce                                                *)
(***************************************************************************)

\* the local value site s passed in the round of generation g
LocalValue(g, s) == calls[<<g, s>>].val

\* op(...op(op(v0, v1), v2)..., vk) over the local values of round g
RECURSIVE FoldUpTo(_, _)
FoldUpTo(g, k) ==
    IF k = 0 THEN LocalValue(g, 0)
    ELSE Apply(op, FoldUpTo(g, k - 1), LocalValue(g, k))

RoundReady(g) == \A s \in Sites : calls[<<g, s>>].st = "ready"

\* the slot buffer the call c was sent to
BufOf(c) == bufs[<<calls[c].comm, calls[c].gen>>]

Sent(c) == calls[c].st \in {"issued", "stepped", "ready"}

C7_FoldOnce ==
    \A g \in gens : \A s \in Sites :
        Sent(<<g, s>>) =>
            /\ BufOf(<<g, s>>).folds <= 1
            /\ BufOf(<<g, s>>).reduce_calls <= num_sites - 1
            /\ RoundReady(g) =>
                  BufOf(<<g, s>>).reduce_calls = num_sites - 1

C7_Witness ==
    /\ num_sites = MaxSites
    /\ \E g \in gens :
        /\ RoundReady(g)
        /\ BufOf(<<g, 0>>).folds = 1
        /\ BufOf(<<g, 0>>).reduce_calls = MaxSites - 1

\* C8: all_reduce on a communicator handle with generation 0 returns a
\* future that is already failed with bad_parameter; no contribution is
\* recorded and no communicator action is issued for that call.
C8_ZeroGenerationRejected ==
    overload = "handle" =>
        /\ \A s \in Sites :
            /\ calls[<<0, s>>].st \in {"none", "failed"}
            /\ calls[<<0, s>>].st = "failed"
                  => calls[<<0, s>>].err = "bad_parameter"
        /\ bufs[<<HandleComm, 0>>] = EmptyBuf

C8_Witness ==
    /\ overload = "handle"
    /\ 0 \in gens
    /\ num_sites = MaxSites
    /\ \A s \in Sites : calls[<<0, s>>].st = "failed"

\* C9: the basename overload called with generation 0 is rejected like the
\* handle overload: the returned future is already failed with
\* bad_parameter.
C9_BasenameZeroGenerationRejected ==
    overload = "basename" =>
        \A s \in Sites :
            /\ calls[<<0, s>>].st \in {"none", "failed"}
            /\ calls[<<0, s>>].st = "failed"
                  => calls[<<0, s>>].err = "bad_parameter"

\* a step that changes no call of the round of generation g
RoundIdle(g) == \A s \in SiteIds : calls'[<<g, s>>] = calls[<<g, s>>]

\* C10: two rounds on the same basename with different generations are
\* isolated: every site's result in a round is the fold of that round's
\* values only, and a step of the other round leaves the slots and the
\* computed flag of this round unchanged, for every interleaving.
C10_RoundsIsolated ==
    /\ [](overload = "basename" =>
            \A g \in gens : \A s \in Sites :
                calls[<<g, s>>].st = "ready"
                    => calls[<<g, s>>].res = FoldUpTo(g, num_sites - 1))
    /\ [][overload = "basename" =>
            \A g \in gens : \A s \in Sites :
                (RoundIdle(g) /\ Sent(<<g, s>>))
                    => BufOf(<<g, s>>)' = BufOf(<<g, s>>)]_vars

C10_Witness ==
    /\ overload = "basename"
    /\ gens = {1, 2}
    /\ num_sites = MaxSites
    /\ RoundReady(1)
    /\ RoundReady(2)
    /\ calls[<<1, 0>>].res # calls[<<2, 0>>].res

\* the call c is made ready by this step
BecomesReady(c) == calls[c].st # "ready" /\ calls'[c].st = "ready"

\* C11: no site's future for a generation becomes ready with a value before
\* all num_sites contributions of that generation are recorded and the fold
\* is completed; no site observes slot 0 before it holds the folded result.
C11_ReadyAfterAllContributions ==
    /\ [][\A g \in gens : \A s \in Sites :
            BecomesReady(<<g, s>>) =>
                /\ BufOf(<<g, s>>).set = Sites
                /\ \A t \in Sites : calls[<<g, t>>].st \in {"stepped", "ready"}
                /\ BufOf(<<g, s>>)'.data[0] = FoldUpTo(g, num_sites - 1)
                /\ calls'[<<g, s>>].res = BufOf(<<g, s>>)'.data[0]]_vars
    /\ [](\A g \in gens : \A s \in Sites :
            calls[<<g, s>>].st = "ready" =>
                /\ BufOf(<<g, s>>).set = Sites
                /\ num_sites > 1 => BufOf(<<g, s>>).data_available
                /\ calls[<<g, s>>].res = BufOf(<<g, s>>).data[0])

C11_Witness ==
    /\ num_sites = MaxSites
    /\ op = "plus"
    /\ \E g \in gens :
        /\ calls[<<g, 0>>].st = "ready"
        /\ \E s \in Sites : calls[<<g, s>>].st = "stepped"
        /\ BufOf(<<g, 0>>).data_available

(***************************************************************************)
(* Properties of block_fork_join_executor                                  *)
(***************************************************************************)

\* block_execs_.size() of the executor the bulk calls are made on
NumTargets == Len(block_execs_)

\* outer_func(i) of the current bulk call has computed its part
Started(i) == tasks[i].st \in {"inner", "joined", "done", "threw"}

PartSize(i) == tasks[i].part_end - tasks[i].part_begin

\* what the last bulk call gave its caller
LastOutcome == outcomes[Len(outcomes)]

\* f threw in the current bulk call
FThrew == \E i \in Indices : tasks[i].exc # NoExc

\* C12: for every shape size >= 0 and every N >= 2 targets the parts
\* [floor(i*size/N), floor((i+1)*size/N)), i = 0..N-1, are contiguous,
\* pairwise disjoint, cover [0, size) exactly, and their sizes differ by at
\* most one.
C12_PartsPartitionShape ==
    NumTargets >= 2 =>
        \A i \in 0..(NumTargets - 1) : Started(i) =>
            /\ 0 <= tasks[i].part_begin
            /\ tasks[i].part_begin <= tasks[i].part_end
            /\ tasks[i].part_end <= size
            /\ i = 0 => tasks[i].part_begin = 0
            /\ i = NumTargets - 1 => tasks[i].part_end = size
            /\ \A j \in 0..(NumTargets - 1) : Started(j) =>
                /\ j = i + 1 => tasks[i].part_end = tasks[j].part_begin
                /\ i < j => tasks[i].part_end <= tasks[j].part_begin
                /\ PartSize(i) - PartSize(j) <= 1
                /\ PartSize(j) - PartSize(i) <= 1

C12_Witness ==
    /\ NumTargets = MaxTargets
    /\ size = MaxSize
    /\ \A i \in 0..(NumTargets - 1) : Started(i)
    /\ \E i, j \in 0..(NumTargets - 1) : PartSize(i) # PartSize(j)

\* C13: with N >= 2 targets one bulk_sync_execute(f, shape) invokes f
\* exactly once for every element of shape and for no other element, so the
\* invocations number size(shape), for every interleaving of the top-level
\* and the sub-executor workers.
C13_OncePerElement ==
    NumTargets >= 2 =>
        /\ \A e \in Elements :
            /\ count[e] <= 1
            /\ e >= size => count[e] = 0
        /\ (bpc = "returned" /\ ~FThrew) =>
              /\ \A e \in 0..(size - 1) : count[e] = 1
              /\ Cardinality({e \in Elements : count[e] = 1}) = size

C13_Witness ==
    /\ NumTargets = MaxTargets
    /\ bpc = "returned"
    /\ ~FThrew
    /\ size = MaxSize
    /\ \A e \in 0..(size - 1) : count[e] = 1

\* C14: bulk_sync_execute does not return to its caller before every
\* invocation of f on every part has completed: all inner barriers and the
\* outer barrier are passed first.
C14_ReturnsAfterCompletion ==
    bpc = "returned" =>
        /\ \A i \in Indices :
            /\ tasks[i].running = {}
            /\ tasks[i].st # "inner"
            /\ NumTargets >= 2 => tasks[i].st # "joined"
        /\ ~FThrew =>
            \A i \in Indices :
                /\ tasks[i].pending = {}
                /\ i < NumTargets => tasks[i].st = "done"

C14_Witness ==
    /\ NumTargets = MaxTargets
    /\ mode = "sync"
    /\ bpc = "returned"
    /\ size = MaxSize
    /\ LastOutcome = Returned
    /\ \A i \in 0..(NumTargets - 1) : tasks[i].st = "done"

\* the processing unit of the constructing thread is in some target's mask
Covered == \E i \in 1..Len(targets) : this_pu \in targets[i]

\* C15: construction fails with bad_parameter whenever the core of the
\* constructing thread is in none of the target masks, with one target and
\* with several; the error is raised before the top-level executor or any
\* sub-executor is created.
C15_UncoveredThreadRejected ==
    (cpc # "start" /\ Len(targets) >= 1 /\ ~Covered) =>
        /\ cpc = "failed"
        /\ thrown = "bad_parameter"
        /\ exec_ = no_init
        /\ block_execs_ = <<>>

C15_Witness ==
    /\ Len(targets) = MaxTargets
    /\ ~Covered
    /\ cpc = "failed"
    /\ thrown = "bad_parameter"

\* C16 as stated: with N >= 2 targets each sub-executor is created with the
\* static schedule whatever schedule was requested, and the requested
\* schedule is the one given to the top-level executor.
C16_SubExecutorsStatic ==
    (cpc = "done" /\ Len(targets) >= 2) =>
        /\ exec_.schedule = schedule
        /\ \A i \in 1..Len(targets) : block_execs_[i].schedule = "static_"

\* C16 amended: with N >= 2 targets the top-level executor is created with
\* the static schedule whatever schedule was requested, and the requested
\* schedule is the one given to each sub-executor.
C16_TopLevelStatic ==
    (cpc = "done" /\ Len(targets) >= 2) =>
        /\ exec_.schedule = "static_"
        /\ \A i \in 1..Len(targets) : block_execs_[i].schedule = schedule

C16_Witness ==
    /\ cpc = "done"
    /\ Len(targets) = MaxTargets
    /\ schedule = "dynamic"
    /\ exec_.schedule = "static_"

\* the lowest-numbered core of a mask
Lowest(mask) == CHOOSE c \in mask : \A d \in mask : c <= d

\* the first target in list order whose mask holds the constructing thread
FirstCovering ==
    CHOOSE i \in 1..Len(targets) :
        /\ this_pu \in targets[i]
        /\ \A j \in 1..(i - 1) : this_pu \notin targets[j]

\* C17 as stated: for N >= 2 targets that cover the calling thread's core
\* the reduced mask holds for each target exactly one representative: the
\* calling thread's core for the target that contains it, the
\* lowest-numbered core of the mask for every other target.
C17_Representatives ==
    (cpc \in {"body", "init", "done"} /\ Len(targets) >= 2 /\ Covered) =>
        exec_.mask = {IF this_pu \in targets[i] THEN this_pu
                      ELSE Lowest(targets[i]) : i \in 1..Len(targets)}

\* C17 amended: for N >= 2 targets that cover the calling thread's core the
\* reduced mask holds for each target one representative: the calling
\* thread's core for the first target in list order that contains it, the
\* lowest-numbered core of the mask for every other target, also for a
\* later target that contains the calling thread's core.
C17_FirstCoveringRepresented ==
    (cpc \in {"body", "init", "done"} /\ Len(targets) >= 2 /\ Covered) =>
        exec_.mask = {IF i = FirstCovering THEN this_pu
                      ELSE Lowest(targets[i]) : i \in 1..Len(targets)}

C17_Witness ==
    /\ cpc = "done"
    /\ Len(targets) = MaxTargets
    /\ Covered
    /\ \E i \in 1..Len(targets) :
        /\ i # FirstCovering
        /\ this_pu \in targets[i]
        /\ Lowest(targets[i]) # this_pu
        /\ Lowest(targets[i]) \in exec_.mask

\* C18: bulk_async_execute never raises synchronously: it returns a ready
\* future when the synchronous execution succeeded, after all invocations
\* of f completed, and a failed future carrying the exception otherwise.
C18_AsyncNeverRaises ==
    (bpc = "returned" /\ mode = "async") =>
        /\ LastOutcome.kind \in {"ready_future", "exceptional_future"}
        /\ LastOutcome.kind = "ready_future" <=> ~FThrew
        /\ LastOutcome.kind = "ready_future" =>
            /\ \A e \in 0..(size - 1) : count[e] = 1
            /\ \A i \in Indices : tasks[i].running = {}
        /\ LastOutcome.kind = "exceptional_future" =>
            /\ LastOutcome.exc = bad
            /\ count[bad] = 1

C18_Witness ==
    /\ NumTargets = MaxTargets
    /\ bpc = "returned"
    /\ mode = "async"
    /\ LastOutcome = ExceptionalFuture(bad)

\* C19: an exception raised by f during bulk_sync_execute propagates out of
\* it; the executor is unchanged (same top-level executor, same
\* sub-executors), and a following bulk_sync_execute on it again invokes f
\* exactly once per element.
C19_ExceptionPropagates ==
    /\ []((bpc = "returned" /\ mode = "sync" /\ FThrew) =>
            LastOutcome = Raised(bad))
    /\ [][exec_' = exec_ /\ block_execs_' = block_execs_]_vars
    /\ []((ncalls = 2 /\ outcomes # <<>> /\ outcomes[1].kind = "raised") =>
            /\ \A e \in Elements : count[e] <= 1
            /\ (bpc = "returned" /\ ~FThrew) =>
                  \A e \in 0..(size - 1) : count[e] = 1)

C19_Witness ==
    /\ NumTargets = MaxTargets
    /\ ncalls = 2
    /\ Len(outcomes) = 2
    /\ outcomes[1].kind = "raised"
    /\ mode = "sync"
    /\ outcomes[2] = Returned
    /\ size = MaxSize

\* C20: two executors are equal iff their top-level executors are
\* identity-equal and their sub-executor lists have the same length and are
\* identity-equal position by position; != is the negation; a copy of an
\* executor is equal to the original.
C20_EqualityIsIdentity ==
    cmp.done =>
        /\ cmp.eq <=>
            /\ exec_.id = other.obj.exec_.id
            /\ Len(block_execs_) = Len(other.obj.block_execs_)
            /\ \A i \in 1..Len(block_execs_) :
                  i <= Len(other.obj.block_execs_) =>
                      block_execs_[i].id = other.obj.block_execs_[i].id
        /\ cmp.ne <=> ~cmp.eq
        /\ other.from = "copy" => cmp.eq

C20_Witness ==
    /\ cmp.done
    /\ other.from = "copy"
    /\ Len(block_execs_) = MaxTargets
    /\ cmp.eq
    /\ ~cmp.ne

\* C21: an executor built from exactly one target holds no sub-executors,
\* and its bulk_sync_execute forwards f and the whole shape in a single bulk
\* call to the top-level executor: no partitioning is applied.
C21_SingleTargetForwards ==
    Len(targets) = 1 =>
        /\ block_execs_ = <<>>
        /\ bpc # "outer"
        /\ bpc \in {"forward", "returned"} =>
            /\ tasks[0].on = exec_.id
            /\ tasks[0].part_begin = 0
            /\ tasks[0].part_end = size
            /\ \A e \in 0..(size - 1) :
                  \/ e \in tasks[0].pending /\ count[e] = 0
                  \/ e \notin tasks[0].pending /\ count[e] = 1
            /\ \A i \in Indices \ {0} : tasks[i] = NoTask
        /\ (bpc = "returned" /\ ~FThrew) =>
              \A e \in 0..(size - 1) : count[e] = 1

C21_Witness ==
    /\ Len(targets) = 1
    /\ bpc = "returned"
    /\ size = MaxSize
    /\ ~FThrew
    /\ tasks[0].on = exec_.id
    /\ \A e \in 0..(size - 1) : count[e] = 1

\* C28: within one generation all num_sites futures resolve to the same
\* value, the content of slot 0 after the single fold, whatever the order
\* in which the sites contributed and in which their finalizers ran, also
\* when reduce_fn is neither commutative nor associative.
C28_Agreement ==
    \A g \in gens : \A s \in Sites : \A t \in Sites :
        (calls[<<g, s>>].st = "ready" /\ calls[<<g, t>>].st = "ready") =>
            /\ calls[<<g, s>>].res = calls[<<g, t>>].res
            /\ calls[<<g, s>>].res = BufOf(<<g, s>>).data[0]

C28_Witness ==
    /\ op = "minus"
    /\ overload = "handle"
    /\ num_sites = MaxSites
    /\ \E g \in gens :
        /\ RoundReady(g)
        /\ LocalValue(g, 0) = 1
        /\ LocalValue(g, 1) = 2
        /\ \A s \in Sites : calls[<<g, s>>].res = calls[<<g, 0>>].res

\* C29: in the basename overload the generation under which the
\* contribution is recorded in the communicator, the generation argument
\* that reaches handle_data, is the generation g supplied by the caller.
C29_BasenameGenerationRecorded ==
    overload = "basename" =>
        \A g \in gens : \A s \in Sites :
            Sent(<<g, s>>) => calls[<<g, s>>].gen = g

\* C22: the communicator handle passed to all_reduce is not released by the
\* call before the returned future has completed: while the future is
\* pending, the continuation or the future's completion callback owns it.
C22_HandleKeptAlive ==
    \A c \in Gens \X SiteIds :
        calls[c].st \in {"issued", "stepped"}
            => calls[c].owner \in {"continuation", "callback"}

C22_Witness ==
    /\ num_sites = MaxSites
    /\ \E g \in gens :
        /\ calls[<<g, 0>>].st = "stepped"
        /\ calls[<<g, 0>>].owner = "callback"
        /\ calls[<<g, 1>>].st = "issued"
        /\ calls[<<g, 1>>].owner = "continuation"

\* C30: if each of the num_sites sites calls all_reduce exactly once for a
\* generation g >= 1 and no transport failure occurs, every site's future
\* eventually becomes ready, under fair scheduling of the sites.
C30_RoundCompletes ==
    <>(\A g \in gens : g >= 1 => RoundReady(g))

C30_Witness ==
    /\ num_sites = MaxSites
    /\ \E g \in gens :
        /\ g >= 1
        /\ RoundReady(g)
        /\ \A s \in Sites : calls[<<g, s>>].owner = "released"

(***************************************************************************)
(* sync_wait.hpp: the shared state's lifetime, publication and call order  *)
(***************************************************************************)
\* the signalling thread has made its last access to the shared state
SignallerFinished == spc = "done"

\* the alternative the delivered signal leaves in the outcome variant
FinalTag ==
    CASE sig.kind = "value" -> "result"
      [] sig.kind = "error" -> "error"
      [] OTHER -> "monostate"

\* C23: the shared state is not accessed after it is destroyed: sync_wait
\* has not returned (and destroyed the state on its stack) while the
\* signalling thread is still inside signal_set_called, between setting
\* set_called and releasing the lock.
C23_StateOutlivesSignaller == wpc = "done" => SignallerFinished

\* C24: whenever set_called is observed true the outcome variant holds its
\* final content, and get_value never reads an outcome that is still being
\* written.
C24_FlagPublishesOutcome ==
    /\ [](set_called => value.tag = FinalTag)
    /\ [][GetValueStep => value.tag = FinalTag]_vars

\* C25: for a sender that delivers one terminal signal, set_called goes
\* from false to true once and never back, and the outcome variant does not
\* change once the flag is set.
C25_SingleAssignment ==
    /\ [][set_called => (set_called' /\ value' = value)]_vars
    /\ (wpc = "construct") ~> set_called

C25_Witness ==
    /\ wpc = "done"
    /\ spc = "done"
    /\ set_called
    /\ sig.kind = "value"
    /\ value.tag = "result"

\* the steps of the generic path in the order of tag_fallback_invoke; the
\* positions inside wait() share one number
Phase(pc) ==
    CASE pc = "dispatch" -> 0
      [] pc = "construct" -> 1
      [] pc = "connect" -> 2
      [] pc = "start" -> 3
      [] pc = "starting" -> 4
      [] pc \in {"check1", "lock", "check2", "blocked", "reacquire",
                 "unlock"} -> 5
      [] pc = "wait_returned" -> 6
      [] pc = "done" -> 7
      [] OTHER -> 8

\* C26: on the generic path the steps happen in this order, each once:
\* the shared state is constructed, the sender is connected, the operation
\* state is started, wait() is called, get_value() is called; get_value is
\* not called before wait() has returned and start is not called twice.
C26_GenericPathOrder ==
    /\ [][/\ (wpc' # wpc /\ Phase(wpc) >= 1)
               => \/ Phase(wpc') = Phase(wpc) + 1
                  \/ Phase(wpc) = 5 /\ Phase(wpc') = 5
          /\ ret' # ret => GetValueStep
          /\ (spc = "idle" /\ spc' # "idle") => wpc = "start"
          /\ spc # "idle" => spc' # "idle"]_vars
    /\ (wpc = "construct") ~> (wpc = "done")

C26_Witness ==
    /\ wpc = "done"
    /\ ~inl
    /\ wake = "notify"
    /\ ret # NotReturned

\* C27: a sender whose completion scheduler customizes sync_wait has the
\* call delegated to that customization and the generic path does not run;
\* the generic path runs only when neither that customization nor a
\* tag_invoke customization for the sender applies.
C27_DispatchOrder ==
    /\ (completion_scheduler /\ scheduler_sync_wait)
        => wpc \in {"dispatch", "delegated_scheduler"}
    /\ wpc = "delegated_scheduler"
        => (completion_scheduler /\ scheduler_sync_wait)
    /\ Phase(wpc) \in 1..7
        => /\ ~(completion_scheduler /\ scheduler_sync_wait)
           /\ ~sender_sync_wait

C27_Witness ==
    /\ wpc = "delegated_scheduler"
    /\ sender_sync_wait
    /\ spc = "idle"

(***************************************************************************)
(* all_reduce.hpp: the frame of the step function, a round of one site     *)
(***************************************************************************)
\* C31: the step function of site s writes only slot s of its generation:
\* the contribution of site s leaves every other slot and the computed
\* flag (data_available) unchanged.
C31_StepWritesOwnSlot ==
    [][\A k \in BufKeys : \A s \in SiteIds :
          (s \notin bufs[k].set /\ s \in bufs'[k].set)
              => /\ \A j \in SiteIds \ {s} :
                      bufs'[k].data[j] = bufs[k].data[j]
                 /\ bufs'[k].data_available = bufs[k].data_available
                 /\ \A k2 \in BufKeys \ {k} : bufs'[k2] = bufs[k2]]_vars

C31_Witness ==
    /\ num_sites = MaxSites
    /\ \E k \in BufKeys :
        /\ bufs[k].set = {0, 1}
        /\ bufs[k].data[0] # bufs[k].data[1]
        /\ ~bufs[k].data_available

\* C32: with num_sites = 1 the finalizer never invokes reduce_fn and never
\* sets the computed flag, and the site's future resolves to the site's own
\* local value.
C32_SingleSiteNoFold ==
    num_sites = 1
        => /\ \A k \in BufKeys :
                /\ ~bufs[k].data_available
                /\ bufs[k].folds = 0
                /\ bufs[k].reduce_calls = 0
           /\ \A c \in Gens \X SiteIds :
                calls[c].st = "ready" => calls[c].res = calls[c].val

C32_Witness ==
    /\ num_sites = 1
    /\ \E g \in gens :
        /\ calls[<<g, 0>>].st = "ready"
        /\ calls[<<g, 0>>].val \in LocalVals
        /\ calls[<<g, 0>>].res = calls[<<g, 0>>].val

(***************************************************************************)
(* block_fork_join_executor: the sub-executors, the placement mask, the    *)
(* return of a bulk call                                                   *)
(***************************************************************************)
\* C33: for N >= 2 targets, after the constructor returns the executor
\* holds exactly N sub-executors, sub-executor i is the one created from
\* the full core mask of target i, in the order of the target list, and
\* none is left in its no_init state.
C33_SubExecutorsBuilt ==
    (cpc = "done" /\ Len(targets) >= 2) =>
        /\ Len(block_execs_) = Len(targets)
        /\ \A i \in 1..Len(targets) :
            /\ block_execs_[i] # no_init
            /\ block_execs_[i].mask = targets[i]
            /\ block_execs_[i].id = <<1, i>>

C33_Witness ==
    /\ cpc = "done"
    /\ Len(targets) = MaxTargets
    /\ targets[1] # targets[2]
    /\ block_execs_[1].mask = targets[1]
    /\ block_execs_[2].mask = targets[2]

\* C34: during construction with N >= 2 targets the initialisers do not
\* race: initialiser i writes only element i of the pre-sized list of
\* sub-executors, no element is written by two initialisers, and the list
\* is not resized while they run.
C34_InitialisersDisjoint ==
    [][cpc = "init" =>
          /\ Len(block_execs_') = Len(block_execs_)
          /\ \A i \in 1..Len(block_execs_) :
                block_execs_'[i] # block_execs_[i]
                    => /\ i \in init_todo
                       /\ init_todo' = init_todo \ {i}
                       /\ block_execs_[i] = no_init]_vars

C34_Witness ==
    /\ cpc = "init"
    /\ Len(targets) = MaxTargets
    /\ init_todo = {1}
    /\ block_execs_[1] = no_init
    /\ block_execs_[2] # no_init

\* C35: within one bulk_sync_execute on N >= 2 targets, outer index i
\* issues one inner bulk call, on sub-executor i and on no other, so that no
\* sub-executor is driven by two outer indices at the same time.
C35_OneCallPerSubExecutor ==
    /\ [](NumTargets >= 2 =>
            \A i \in 0..(NumTargets - 1) :
                Started(i) =>
                    /\ tasks[i].on = block_execs_[i + 1].id
                    /\ \A j \in 0..(NumTargets - 1) :
                          (j # i /\ Started(j)) => tasks[j].on # tasks[i].on)
    /\ [][\A i \in Indices :
              (Started(i) /\ ncalls' = ncalls)
                  => /\ tasks'[i].st \in {"inner", "joined", "done", "threw"}
                     /\ tasks'[i].on = tasks[i].on
                     /\ tasks'[i].part_begin = tasks[i].part_begin
                     /\ tasks'[i].part_end = tasks[i].part_end]_vars

C35_Witness ==
    /\ NumTargets = MaxTargets
    /\ bpc = "outer"
    /\ tasks[0].st = "inner"
    /\ tasks[1].st = "inner"
    /\ tasks[0].running # {}
    /\ tasks[1].running # {}
    /\ tasks[0].on # tasks[1].on

\* cores_for_targets has returned a mask and exec_ was built from it
MaskReturned == cpc \in {"body", "init", "done"}

PairwiseDisjoint ==
    \A i, j \in 1..Len(targets) : i # j => targets[i] \cap targets[j] = {}

\* C36 as stated: for every list of N >= 2 targets with non-empty masks
\* that covers the calling thread's core, overlapping or repeated masks
\* included, the mask returned by cores_for_targets has exactly N bits set.
C36_DistinctRepresentatives ==
    (MaskReturned /\ Len(targets) >= 2) =>
        Cardinality(exec_.mask) = Len(targets)

\* C36 amended: for N >= 2 targets that cover the calling thread's core the
\* mask returned by cores_for_targets holds a core of every target and has
\* between 1 and N bits set; it has exactly N bits set when the targets'
\* masks are pairwise disjoint.
C36_RepresentativesOfTargets ==
    (MaskReturned /\ Len(targets) >= 2) =>
        /\ \A i \in 1..Len(targets) : targets[i] \cap exec_.mask # {}
        /\ Cardinality(exec_.mask) \in 1..Len(targets)
        /\ PairwiseDisjoint => Cardinality(exec_.mask) = Len(targets)

C36_Witness ==
    /\ cpc = "done"
    /\ Len(targets) = MaxTargets
    /\ PairwiseDisjoint
    /\ this_pu # Lowest(targets[FirstCovering])
    /\ Cardinality(exec_.mask) = MaxTargets

\* C37: whenever cores_for_targets returns a mask instead of raising, the
\* calling thread's core is a member of that mask, for one target and for
\* several targets.
C37_CallerInMask == MaskReturned => this_pu \in exec_.mask

C37_Witness ==
    /\ MaskReturned
    /\ Len(targets) = MaxTargets
    /\ \A i \in 1..Len(targets) : this_pu # Lowest(targets[i])
    /\ this_pu \in exec_.mask

\* C38: constructing the executor from an empty target list raises the
\* bad_parameter error and builds no executor.
C38_EmptyTargetListRejected ==
    Len(targets) = 0 =>
        /\ cpc \in {"start", "failed"}
        /\ cpc = "failed" => thrown = "bad_parameter"
        /\ exec_ = no_init
        /\ block_execs_ = <<>>
        /\ other = NoExecutor

C38_Witness ==
    /\ Len(targets) = 0
    /\ cpc = "failed"
    /\ thrown = "bad_parameter"
    /\ exec_ = no_init

\* C39: if every invocation of f terminates, bulk_sync_execute on N >= 2
\* targets eventually returns under fair scheduling of the workers, for
\* every shape size, the sizes smaller than N (some parts are empty) and
\* size 0 included: the call on the hierarchy (bpc = "outer", left only by
\* the return of the call) is never in progress forever.
C39_BulkCallReturns == []<>(bpc # "outer")

C39_Witness ==
    /\ NumTargets = MaxTargets
    /\ bpc = "returned"
    /\ mode = "sync"
    /\ size = 1
    /\ \E i \in 0..(NumTargets - 1) : tasks[i].st = "done" /\ PartSize(i) = 0
    /\ LastOutcome = Returned

====
